---- MODULE Spec2Model ----
(***************************************************************************)
(* IncludeCleaner (src/main.py): for every source file of a project, try   *)
(* to delete each #include, rebuild the project and keep the deletion when *)
(* the build still succeeds.                                               *)
(*                                                                         *)
(* A file is a sequence of lines.  The two regular expressions of the      *)
(* program only tell three kinds of line apart:                            *)
(*   "include"  an include directive at the start of the line (leading     *)
(*              white space allowed) naming the header `name`;             *)
(*   "blank"    a line of white space only;                                *)
(*   "other"    any other text; here the text  int v; // #include <name>   *)
(* nl says whether the line ends with a newline; only the last line of a   *)
(* file may lack it.                                                       *)
(***************************************************************************)
EXTENDS Integers, Sequences, FiniteSets, TLC

\* ---------------------------------------------------------------- bounds
MaxLines == 3      \* lines of text over all source files of the tree
MaxRuns == 2       \* calls of clean_includes in SpecRerun

\* ------------------------------------------------------------- the tree
Headers == {"x.h", "y.h"}

IncludeLines == [kind : {"include"}, name : Headers, nl : BOOLEAN]
BlankLines == [kind : {"blank"}, name : {""}, nl : BOOLEAN]
OtherLines == [kind : {"other"}, name : {"x.h"}, nl : BOOLEAN]
Lines == IncludeLines \cup BlankLines \cup OtherLines

WellFormed(content) ==
    \A i \in 1..Len(content) : i < Len(content) => content[i].nl

ContentsOfLen(n) == {c \in [1..n -> Lines] : WellFormed(c)}

\* the directory walk, in os.walk order
Paths == <<"a.cpp", "r.txt", "b.h">>
PathSet == {Paths[i] : i \in 1..Len(Paths)}
Ext == [p \in PathSet |->
          CASE p = "a.cpp" -> ".cpp" [] p = "b.h" -> ".h" [] OTHER -> ".txt"]

ReadmeContent == <<[kind |-> "include", name |-> "x.h", nl |-> TRUE]>>

Trees ==
    {[p \in PathSet |-> CASE p = "a.cpp" -> ca [] p = "b.h" -> cb
                          [] OTHER -> ReadmeContent] :
        <<ca, cb>> \in UNION {ContentsOfLen(na) \X ContentsOfLen(nb) :
                       <<na, nb>> \in {q \in (0..MaxLines) \X (0..MaxLines) :
                                          q[1] + q[2] <= MaxLines}}}

\* ------------------------------------------------------- __init__ (l.16)
source_extensions == <<".c", ".cpp", ".h", ".hpp">>

has_source_extension(p) ==
    \E i \in 1..Len(source_extensions) : Ext[p] = source_extensions[i]

\* ----------------------------------------------- the regular expressions
\* the pattern without its ^ anchor: it also finds the directive that an
\* "other" line mentions after its text
RECURSIVE findall_unanchored(_)
findall_unanchored(content) ==
    IF content = <<>> THEN <<>>
    ELSE IF Head(content).kind \in {"include", "other"}
         THEN <<Head(content).name>> \o findall_unanchored(Tail(content))
         ELSE findall_unanchored(Tail(content))

\* an extraction that returns every header name once
RECURSIVE findall_dedup(_)
findall_dedup(content) ==
    IF content = <<>> THEN <<>>
    ELSE LET front == findall_dedup(SubSeq(content, 1, Len(content) - 1))
             last == content[Len(content)]
         IN IF /\ last.kind = "include"
               /\ \A k \in 1..Len(front) : front[k] # last.name
            THEN Append(front, last.name)
            ELSE front

\* re.findall(r'^\s*#include\s*[<"](.+?)[>"]', content, re.MULTILINE)
RECURSIVE findall(_)
findall(content) ==
    IF content = <<>> THEN <<>>
    ELSE IF Head(content).kind = "include"
         THEN <<Head(content).name>> \o findall(Tail(content))
         ELSE findall(Tail(content))

\* ^\s* : \s also matches newlines, so a match that starts on a blank line
\* runs over the following blank lines up to the first line that is not one
FirstNonBlank(content, i) ==
    LET later == {k \in i..Len(content) : content[k].kind # "blank"}
    IN IF later = {} THEN 0 ELSE CHOOSE k \in later : \A m \in later : k <= m

\* line i is inside a match of  ^\s*#include\s*[<"](h)[>"].*\n?
InMatch(content, i, h) ==
    LET k == FirstNonBlank(content, i)
    IN /\ k # 0
       /\ content[k].kind = "include"
       /\ content[k].name = h

RECURSIVE SubFrom(_, _, _)
SubFrom(content, i, h) ==
    IF i > Len(content) THEN <<>>
    ELSE IF InMatch(content, i, h) THEN SubFrom(content, i + 1, h)
         ELSE <<content[i]>> \o SubFrom(content, i + 1, h)

\* re.sub(pattern, '', content, flags=re.MULTILINE)
sub(content, h) == SubFrom(content, 1, h)

\* a write that goes to the first path of the walk
write_first(tree, path, content) == [tree EXCEPT ![Paths[1]] = content]

\* with open(file_path, 'w') as f: f.write(content)
write(tree, path, content) == [tree EXCEPT ![path] = content]

\* a restore that leaves the file as the trial left it
unrestored(content, original) == content

\* a restore that writes the snapshot without its blank lines
RECURSIVE normalised(_, _)
normalised(content, original) ==
    IF original = <<>> THEN <<>>
    ELSE IF Head(original).kind = "blank"
         THEN normalised(content, Tail(original))
         ELSE <<Head(original)>> \o normalised(content, Tail(original))

\* what restore_include writes
restored(content, original) == original

\* a return value that takes an exception of subprocess.run for a success
returncode_lenient(outcome) == outcome # "nonzero"

\* compile_project's return value for an outcome of subprocess.run
returncode_ok(outcome) == outcome = "zero"

\* ----------------------------------------------------------------- state
VARIABLES
    disk,              \* path -> content: the project tree
    pc,                \* position in clean_includes
    source_files,      \* the list find_source_files returned
    fi,                \* index of file_path in source_files
    includes,          \* the list extract_includes returned
    original_content,  \* the content read at l.113-114
    ii,                \* index of include in includes
    result,            \* the value compile_project returned
    log,               \* what was printed, in order
    det,               \* the build command is deterministic
    build0,            \* outcome of the build command on the initial tree
    calls,             \* history: the runs of the build command
    orig,              \* history: the tree at construction
    run_start,         \* history: the tree when clean_includes was called
    pre_trial,         \* history: the file's content before this trial
    written,           \* history: the paths opened for writing
    prev_log,          \* history: what the previous call printed
    run                \* number of the call of clean_includes

vars == <<disk, pc, source_files, fi, includes, original_content, ii, result,
          log, det, build0, calls, orig, run_start, pre_trial, written,
          prev_log, run>>

loop == <<source_files, fi, includes, original_content, ii, result>>
hist == <<det, build0, orig, run_start, prev_log, run>>

Outcomes == {"zero", "nonzero", "raise"}

file_path == source_files[fi]
include == includes[ii]

Init ==
    /\ disk \in Trees
    /\ orig = disk
    /\ run_start = disk
    /\ pc = "start"
    /\ source_files = <<>>
    /\ fi = 1
    /\ includes = <<>>
    /\ original_content = <<>>
    /\ ii = 1
    /\ result = FALSE
    /\ log = <<>>
    /\ det \in BOOLEAN
    /\ build0 \in (IF det THEN Outcomes ELSE {"zero"})
    /\ calls = <<>>
    /\ pre_trial = <<>>
    /\ written = {}
    /\ prev_log = <<>>
    /\ run = 1

\* an uncaught exception leaves clean_includes
Abort(what) ==
    /\ pc' = "aborted"
    /\ log' = Append(log, <<"Traceback", what, file_path>>)

\* a walk that returns the files in the opposite order
RECURSIVE walk_reversed(_)
walk_reversed(paths) ==
    IF paths = <<>> THEN <<>>
    ELSE IF has_source_extension(Head(paths))
         THEN walk_reversed(Tail(paths)) \o <<Head(paths)>>
         ELSE walk_reversed(Tail(paths))

\* l.18-29 and l.102
RECURSIVE walk(_)
walk(paths) ==
    IF paths = <<>> THEN <<>>
    ELSE IF has_source_extension(Head(paths))
         THEN <<Head(paths)>> \o walk(Tail(paths))
         ELSE walk(Tail(paths))

find_source_files ==
    /\ pc = "start"
    /\ source_files' = walk(Paths)
    /\ fi' = 1
    /\ pc' = "for_file"
    /\ UNCHANGED <<disk, includes, original_content, ii, result, log, calls,
                   pre_trial, written>>
    /\ UNCHANGED hist

\* l.104-110: the loop head, the extension test and extract_includes
extract_includes ==
    /\ pc = "for_file"
    /\ fi <= Len(source_files)
    /\ IF ~has_source_extension(file_path)
       THEN /\ fi' = fi + 1
            /\ UNCHANGED <<pc, includes, ii, log>>
       ELSE \E fault \in {"none", "read"} :
              IF fault = "none"
              THEN /\ includes' = findall(disk[file_path])
                   /\ ii' = 1
                   /\ pc' = "snapshot"
                   /\ UNCHANGED <<fi, log>>
              ELSE /\ Abort("extract_includes")
                   /\ UNCHANGED <<fi, includes, ii>>
    /\ UNCHANGED <<disk, source_files, original_content, result, calls,
                   pre_trial, written>>
    /\ UNCHANGED hist

\* l.113-114
read_original ==
    /\ pc = "snapshot"
    /\ \E fault \in {"none", "read"} :
         IF fault = "none"
         THEN /\ original_content' = disk[file_path]
              /\ pc' = "for_include"
              /\ UNCHANGED log
         ELSE /\ Abort("open")
              /\ UNCHANGED original_content
    /\ UNCHANGED <<disk, source_files, fi, includes, ii, result, calls,
                   pre_trial, written>>
    /\ UNCHANGED hist

\* l.117-119 and l.45-67
remove_include ==
    /\ pc = "for_include"
    /\ ii <= Len(includes)
    /\ pre_trial' = disk[file_path]
    /\ \E fault \in {"none", "read", "open", "write"} :
         CASE fault = "none" ->
                /\ disk' = write(disk, file_path,
                                 sub(disk[file_path], include))
                /\ written' = written \cup {file_path}
                /\ pc' = "compile"
                /\ UNCHANGED log
           [] fault = "write" ->
                \* open(file_path, 'w') has truncated the file
                /\ disk' = write(disk, file_path, <<>>)
                /\ written' = written \cup {file_path}
                /\ Abort("remove_include")
           [] OTHER ->
                /\ Abort("remove_include")
                /\ UNCHANGED <<disk, written>>
    /\ UNCHANGED <<calls>>
    /\ UNCHANGED loop
    /\ UNCHANGED hist

\* the outcomes the build command can have on the tree
Possible(tree) ==
    IF ~det THEN Outcomes
    ELSE IF tree = orig THEN {build0}
    ELSE IF \E k \in 1..Len(calls) : calls[k].tree = tree
         THEN {calls[k].outcome : k \in {j \in 1..Len(calls) :
                                            calls[j].tree = tree}}
         ELSE Outcomes

\* l.122 and l.79-96
compile_project ==
    /\ pc = "compile"
    /\ \E outcome \in Possible(disk) :
         /\ calls' = Append(calls, [tree |-> disk, outcome |-> outcome,
                                    file |-> file_path, include |-> include])
         /\ result' = returncode_ok(outcome)
         /\ log' = IF outcome = "raise"
                   THEN Append(log, <<"Compilation error", "", "">>)
                   ELSE log
    /\ pc' = "decide"
    /\ UNCHANGED <<disk, source_files, fi, includes, original_content, ii,
                   pre_trial, written>>
    /\ UNCHANGED hist

\* l.122-123
report_removed ==
    /\ pc = "decide"
    /\ result
    /\ log' = Append(log, <<"Removed", include, file_path>>)
    /\ ii' = ii + 1
    /\ pc' = "for_include"
    /\ UNCHANGED <<disk, source_files, fi, includes, original_content,
                   result, calls, pre_trial, written>>
    /\ UNCHANGED hist

\* l.124-127 and l.69-77
restore_include ==
    /\ pc = "decide"
    /\ ~result
    /\ \E fault \in {"none", "open", "write"} :
         LET kept == Append(log, <<"Keep", include, file_path>>)
             trace == Append(kept, <<"Traceback", "restore_include",
                                     file_path>>)
         IN CASE fault = "none" ->
                   /\ disk' = write(disk, file_path,
                                    restored(disk[file_path],
                                             original_content))
                   /\ written' = written \cup {file_path}
                   /\ log' = kept
                   /\ ii' = ii + 1
                   /\ pc' = "for_include"
              [] fault = "write" ->
                   /\ disk' = write(disk, file_path, <<>>)
                   /\ written' = written \cup {file_path}
                   /\ log' = trace
                   /\ pc' = "aborted"
                   /\ UNCHANGED ii
              [] OTHER ->
                   /\ log' = trace
                   /\ pc' = "aborted"
                   /\ UNCHANGED <<disk, written, ii>>
    /\ UNCHANGED <<source_files, fi, includes, original_content, result,
                   calls, pre_trial>>
    /\ UNCHANGED hist

\* a loop over the files that does not advance to the next file
next_file_again ==
    /\ pc = "for_include"
    /\ ii > Len(includes)
    /\ pc' = "for_file"
    /\ UNCHANGED <<disk, source_files, fi, includes, original_content, ii,
                   result, log, calls, pre_trial, written>>
    /\ UNCHANGED hist

\* l.117: the includes of file_path are exhausted; l.104: the next file
next_file ==
    /\ pc = "for_include"
    /\ ii > Len(includes)
    /\ fi' = fi + 1
    /\ pc' = "for_file"
    /\ UNCHANGED <<disk, source_files, includes, original_content, ii,
                   result, log, calls, pre_trial, written>>
    /\ UNCHANGED hist

\* l.129
complete ==
    /\ pc = "for_file"
    /\ fi > Len(source_files)
    /\ log' = Append(log, <<"Include cleanup complete!", "", "">>)
    /\ pc' = "done"
    /\ UNCHANGED <<disk, calls, pre_trial, written>>
    /\ UNCHANGED loop
    /\ UNCHANGED hist

\* l.138 once more: clean_includes is called again on the tree it left
rerun ==
    /\ pc = "done"
    /\ run < MaxRuns
    /\ run' = run + 1
    /\ run_start' = disk
    /\ pc' = "start"
    /\ prev_log' = log
    /\ log' = <<>>
    /\ written' = {}
    /\ UNCHANGED <<disk, calls, pre_trial, det, build0, orig>>
    /\ UNCHANGED loop

\* l.138 once more, on the same tree: the tree is put back as it was at
\* construction and clean_includes is called a second time
rerun_same_tree ==
    /\ pc = "done"
    /\ run = 1
    /\ run' = 2
    /\ disk' = orig
    /\ run_start' = orig
    /\ prev_log' = log
    /\ log' = <<>>
    /\ written' = {}
    /\ pc' = "start"
    /\ UNCHANGED <<calls, pre_trial, det, build0, orig>>
    /\ UNCHANGED loop

clean_includes ==
    \/ find_source_files
    \/ extract_includes
    \/ read_original
    \/ remove_include
    \/ compile_project
    \/ report_removed
    \/ restore_include
    \/ next_file
    \/ complete

Next == clean_includes

Spec == Init /\ [][Next]_vars

\* the interpreter keeps executing clean_includes and every call of the
\* build command returns: a step that can be taken is taken
\* with a build command free to answer anything at every call
InitLive == Init /\ ~det

SpecLive == InitLive /\ [][Next]_vars /\ WF_vars(Next)

NextRerun == clean_includes \/ rerun

\* the second call is studied with a deterministic build command
InitRerun == Init /\ det

SpecRerun == InitRerun /\ [][NextRerun]_vars

NextTwice == clean_includes \/ rerun_same_tree

\* two calls on one fixed tree with one deterministic build command
SpecTwice == InitRerun /\ [][NextTwice]_vars

TypeOK ==
    /\ pc \in {"start", "for_file", "snapshot", "for_include", "compile",
               "decide", "done", "aborted"}
    /\ \A p \in PathSet : WellFormed(disk[p])
    /\ run \in 1..MaxRuns
\* --------------------------------------------------- notions for claims
Last(seq) == seq[Len(seq)]

SourcePaths == {p \in PathSet : has_source_extension(p)}

\* the headers the include lines of a content name
Named(content) == {content[i].name :
                     i \in {j \in 1..Len(content) : content[j].kind = "include"}}

\* the include lines of a content, in order
RECURSIVE Directives(_)
Directives(content) ==
    IF content = <<>> THEN <<>>
    ELSE IF Head(content).kind = "include"
         THEN <<Head(content)>> \o Directives(Tail(content))
         ELSE Directives(Tail(content))

\* the headers reported for a path with the given word
Reported(word, p) ==
    {log[k][2] : k \in {j \in 1..Len(log) : log[j][1] = word /\ log[j][3] = p}}

CallsOf(p) == {k \in 1..Len(calls) : calls[k].file = p}

\* every answer the build command can give on the tree is a success
OracleTrue(tree) == Possible(tree) = {"zero"}

\* the trials of file_path are over
FileFinished ==
    \/ pc = "for_include" /\ ii > Len(includes)
    \/ pc = "done"

\* the last step resolved a trial of file_path by a restore
JustRestored ==
    /\ pc = "for_include"
    /\ ii > 1
    /\ log # <<>>
    /\ Last(log) = <<"Keep", includes[ii - 1], file_path>>

\* the build command succeeds exactly on the trees in which a.cpp still has
\* an include line naming a header of hs
SucceedsIffPresent(hs) ==
    /\ det
    /\ build0 = IF Named(orig["a.cpp"]) \cap hs # {} THEN "zero" ELSE "nonzero"
    /\ \A k \in 1..Len(calls) :
         calls[k].outcome =
           IF Named(calls[k].tree["a.cpp"]) \cap hs # {} THEN "zero"
           ELSE "nonzero"

\* ------------------------------------------------------------------- C1
\* C1: with a deterministic build command that succeeds on the tree as it
\* is before clean_includes starts, the build command succeeds on the
\* current tree whenever the last trial of a file is over, and so when the
\* run ends.
C1_BuildableAfterFile ==
    (det /\ build0 = "zero" /\ FileFinished) => OracleTrue(disk)

\* the run ended after a trial was accepted and a later one was restored
C1_Witness ==
    /\ pc = "done"
    /\ det
    /\ build0 = "zero"
    /\ disk # orig
    /\ \E k \in 1..Len(calls) : calls[k].outcome = "nonzero"
    /\ OracleTrue(disk)

\* ------------------------------------------------------------------- C2
\* C2: a header reported "Removed" for a file is named by no include line
\* of that file at any later point, and when the run ends the include lines
\* left in a file are those of the original whose header was not reported
\* removed.  Stated for a deterministic build command that succeeds on the
\* initial tree and for runs without an I/O error.
C2_RemovedStaysRemoved ==
    (det /\ build0 = "zero" /\ pc # "aborted") =>
      \A p \in SourcePaths :
        /\ Reported("Removed", p) \cap Named(disk[p]) = {}
        /\ pc = "done" =>
             Directives(disk[p]) =
               SelectSeq(Directives(orig[p]),
                         LAMBDA l : l.name \notin Reported("Removed", p))

\* ------------------------------------------------------------------- C3
\* C3: a.cpp has exactly the two includes x.h and y.h and the build fails
\* only when both are absent: when the run ends exactly one of the two has
\* been removed from a.cpp.
C3_ExactlyOneRemoved ==
    (/\ pc = "done"
     /\ Len(Directives(orig["a.cpp"])) = 2
     /\ Named(orig["a.cpp"]) = {"x.h", "y.h"}
     /\ SucceedsIffPresent({"x.h", "y.h"}))
    => Cardinality(Named(disk["a.cpp"])) = 1

\* ------------------------------------------------------------------- C4
\* C4: a second call of clean_includes on the tree the first call left,
\* with the same deterministic build command, reports no removal and leaves
\* every file as the first call left it.  Stated for the build command that
\* succeeds exactly when a.cpp includes y.h.
C4_SecondRunRemovesNothing ==
    (run = 2 /\ SucceedsIffPresent({"y.h"})) =>
      /\ \A k \in 1..Len(log) : log[k][1] # "Removed"
      /\ pc = "done" => disk = run_start

\* ------------------------------------------------------------------- C5
\* C5: when every run of the build command so far raised or could not be
\* executed (the shell's nonzero exit), compile_project returned False each
\* time: every resolved trial was reported "Keep" and none "Removed", the
\* build command never ended the run, and when the run ends the tree equals
\* the tree before the run.
C5_OracleCrashKeepsAll ==
    (\A k \in 1..Len(calls) : calls[k].outcome \in {"raise", "nonzero"}) =>
      /\ \A k \in 1..Len(log) : log[k][1] # "Removed"
      /\ pc \in {"for_file", "for_include", "done"} =>
           \A p \in SourcePaths :
             Cardinality({k \in 1..Len(log) :
                            log[k][1] = "Keep" /\ log[k][3] = p})
               = Cardinality(CallsOf(p))
      /\ pc = "decide" => ~result
      /\ pc = "aborted" => Last(log)[1] = "Traceback"
      /\ pc = "done" => disk = run_start

\* the run ended after the build command raised in a trial of each source
\* file and never succeeded
C5_Witness ==
    /\ pc = "done"
    /\ \A p \in SourcePaths :
         \E k \in CallsOf(p) : calls[k].outcome = "raise"
    /\ \E k \in 1..Len(calls) : calls[k].outcome = "nonzero"
    /\ \A k \in 1..Len(calls) : calls[k].outcome # "zero"
    /\ disk = run_start

\* ------------------------------------------------------------------- C6
\* C6: a read or write error on one file ends the processing of that file
\* only: the run goes on, so when it has stopped every source file after
\* the faulted one in discovery order has had one trial for each of its
\* includes.
C6_FaultSkipsOneFile ==
    pc = "aborted" =>
      \A j \in (fi + 1)..Len(source_files) :
        Cardinality(CallsOf(source_files[j]))
          = Len(Directives(run_start[source_files[j]]))

\* ------------------------------------------------------------------- C7
\* C7: at every point of the run at which it may be interrupted, the
\* content of every file on disk is its original content or a content with
\* which the build command has already succeeded.
C7_NeverUntested ==
    pc # "aborted" =>
      \A p \in PathSet :
        \/ disk[p] = orig[p]
        \/ \E k \in 1..Len(calls) :
             calls[k].outcome = "zero" /\ calls[k].tree[p] = disk[p]

\* ------------------------------------------------------------------- C8
\* C8: when the header under trial is named by two include lines of the
\* file, the one remove_include call leaves no line naming it, and after a
\* failed build the restore leaves the file equal to its content before
\* that trial.
Duplicated(h, content) ==
    Cardinality({i \in 1..Len(content) :
                   content[i].kind = "include" /\ content[i].name = h}) >= 2

C8_DuplicateRestored ==
    /\ (pc \in {"compile", "decide"} /\ Duplicated(include, pre_trial)) =>
         include \notin Named(disk[file_path])
    /\ (JustRestored /\ Duplicated(includes[ii - 1], pre_trial)) =>
         disk[file_path] = pre_trial

\* ------------------------------------------------------------------- C9
\* C9: for a source file without include directives nothing is reported,
\* the build command is not run, the file is never opened for writing and
\* its content stays what it was.
C9_NoIncludesUntouched ==
    \A p \in SourcePaths :
      Directives(run_start[p]) = <<>> =>
        /\ \A k \in 1..Len(log) :
             log[k][1] \in {"Removed", "Keep"} => log[k][3] # p
        /\ CallsOf(p) = {}
        /\ p \notin written
        /\ disk[p] = run_start[p]

\* the run ended; a.cpp has lines but no include and was passed over, b.h
\* had a trial
C9_Witness ==
    /\ pc = "done"
    /\ run_start["a.cpp"] # <<>>
    /\ Directives(run_start["a.cpp"]) = <<>>
    /\ CallsOf("b.h") # {}
    /\ "a.cpp" \notin written
    /\ disk["a.cpp"] = run_start["a.cpp"]

\* ------------------------------------------------------------------ C10
\* C10: after any sequence of remove_include calls on a file that started
\* from the content s, restore_include with s leaves the file equal to s,
\* line for line: s is the content the file had when clean_includes was
\* called.
C10_RestoreRoundTrip ==
    JustRestored => disk[file_path] = run_start[file_path]

\* a restore that followed two remove_include calls on a file with a blank
\* line, the first of them accepted
C10_Witness ==
    /\ JustRestored
    /\ ii = 3
    /\ Reported("Removed", file_path) # {}
    /\ \E i \in 1..Len(run_start[file_path]) :
         run_start[file_path][i].kind = "blank"
    /\ pre_trial # run_start[file_path]
    /\ disk[file_path] = run_start[file_path]

\* ------------------------------------------------------------------ C11
\* C11: whatever the build command answers, the run reaches its end, the
\* print of "Include cleanup complete!", unless an I/O error has left
\* clean_includes; it makes at most one trial per include line of the tree.
RECURSIVE Entries(_, _)
Entries(tree, paths) ==
    IF paths = <<>> THEN 0
    ELSE (IF Head(paths) \in SourcePaths
          THEN Len(Directives(tree[Head(paths)])) ELSE 0)
         + Entries(tree, Tail(paths))

C12_RestoreKeepsAccepted ==
    (det /\ build0 = "zero" /\ JustRestored) =>
      /\ disk[file_path] = pre_trial
      /\ Reported("Removed", file_path) \cap Named(disk[file_path]) = {}

\* ------------------------------------------------------------------ C13
\* C13: with a deterministic build command that succeeds on the initial
\* tree, the build command succeeds on the current tree at every trial
\* boundary: before the first trial of a file and after each trial has been
\* resolved by an acceptance or by a restore.
C13_GreenAtEveryBoundary ==
    (det /\ build0 = "zero" /\ pc = "for_include") => OracleTrue(disk)

\* a boundary in the middle of a file: a trial was accepted, the next one
\* was just restored and another include is still to be tried
C13_Witness ==
    /\ det
    /\ build0 = "zero"
    /\ JustRestored
    /\ ii <= Len(includes)
    /\ Reported("Removed", file_path) # {}
    /\ OracleTrue(disk)

\* ------------------------------------------------------------------ C14
\* C14: the trials of a run come in one fixed order: file after file in
\* the order of the directory walk, all trials of a file before the first
\* of the next, and within a file include after include in textual order;
\* a second run on the same tree with the same deterministic build command
\* prints the same sequence of decisions as the first.
IsPrefix(a, b) == Len(a) <= Len(b) /\ SubSeq(b, 1, Len(a)) = a

\* the decisions printed, in order
Decisions(printed) ==
    SelectSeq(printed, LAMBDA e : e[1] \in {"Removed", "Keep"})

\* the trials in the order claimed, as pairs <<header, path>>
RECURSIVE TrialsOfFile(_, _)
TrialsOfFile(content, p) ==
    IF content = <<>> THEN <<>>
    ELSE IF Head(content).kind = "include"
         THEN <<<<Head(content).name, p>>>> \o TrialsOfFile(Tail(content), p)
         ELSE TrialsOfFile(Tail(content), p)

RECURSIVE ExpectedTrials(_, _)
ExpectedTrials(tree, paths) ==
    IF paths = <<>> THEN <<>>
    ELSE (IF Head(paths) \in SourcePaths
          THEN TrialsOfFile(tree[Head(paths)], Head(paths)) ELSE <<>>)
         \o ExpectedTrials(tree, Tail(paths))

TrialsMade ==
    [k \in 1..Len(Decisions(log)) |->
       <<Decisions(log)[k][2], Decisions(log)[k][3]>>]

C14_TrialsInOrder ==
    /\ IsPrefix(TrialsMade, ExpectedTrials(run_start, Paths))
    /\ pc = "done" => TrialsMade = ExpectedTrials(run_start, Paths)
    /\ run = 2 => IsPrefix(Decisions(log), Decisions(prev_log))
    /\ (run = 2 /\ pc = "done") => log = prev_log

\* the second run ended; both files had trials, a.cpp of two different
\* headers, and both decisions occurred
C14_Witness ==
    /\ run = 2
    /\ pc = "done"
    /\ Cardinality(Reported("Removed", "a.cpp")
                   \cup Reported("Keep", "a.cpp")) = 2
    /\ Reported("Removed", "a.cpp") # {}
    /\ Reported("Keep", "a.cpp") # {}
    /\ Reported("Removed", "b.h") \cup Reported("Keep", "b.h") # {}
    /\ log = prev_log

\* ------------------------------------------------------------------ C15
\* C15: the include list of a file is extracted before the file is first
\* written and stays the list of the headers its include lines named then,
\* duplicates included, whatever the trials do to the file; each entry gets
\* one remove_include, then one run of the build command, then one
\* decision, so that a run that ends has run the build command once per
\* extracted entry.
DecisionsOf(p) == {k \in 1..Len(log) :
                     log[k][1] \in {"Removed", "Keep"} /\ log[k][3] = p}

C15_OneTrialPerEntry ==
    /\ pc = "snapshot" => file_path \notin written
    /\ pc \in {"snapshot", "for_include", "compile", "decide"} =>
         includes = [k \in 1..Len(Directives(run_start[file_path])) |->
                       Directives(run_start[file_path])[k].name]
    /\ pc \in {"for_include", "compile"} =>
         /\ Cardinality(CallsOf(file_path)) = ii - 1
         /\ Cardinality(DecisionsOf(file_path)) = ii - 1
    /\ pc = "decide" =>
         /\ Cardinality(CallsOf(file_path)) = ii
         /\ Cardinality(DecisionsOf(file_path)) = ii - 1
         /\ calls[Len(calls)].tree = disk
    /\ pc = "done" =>
         /\ Len(calls) = Entries(run_start, Paths)
         /\ Len(Decisions(log)) = Len(calls)

\* the run ended; a.cpp named x.h on two include lines and had two trials
\* of x.h, the first of them accepted
C15_Witness ==
    /\ pc = "done"
    /\ Duplicated("x.h", run_start["a.cpp"])
    /\ Cardinality({k \in CallsOf("a.cpp") : calls[k].include = "x.h"}) = 2
    /\ "x.h" \in Reported("Removed", "a.cpp")
    /\ Len(calls) = Entries(run_start, Paths)

\* ------------------------------------------------------------------ C16
\* C16: remove_include deletes exactly the include lines that name the
\* header and leaves every other line of the file, blank lines included,
\* unchanged and in order; when no include line names the header the
\* content is unchanged.
C16_RemovesOnlyNamedLines ==
    pc = "compile" =>
      disk[file_path] =
        SelectSeq(pre_trial,
                  LAMBDA l : ~(l.kind = "include" /\ l.name = include))

\* ------------------------------------------------------------------ C17
\* C17: every step that changes the content of a file on disk is a
\* remove_include or a restore_include of the file being processed: while
\* a file is processed no other file is written.
C17_OnlyCurrentFileWritten ==
    [][\A p \in PathSet :
         (disk'[p] # disk[p] \/ (p \in written' /\ p \notin written)) =>
           /\ pc \in {"for_include", "decide"}
           /\ p = file_path]_vars

\* the second file has been removed from and restored while the first
\* keeps the content its own trials left and the other file its original
C17_Witness ==
    /\ fi = 2
    /\ JustRestored
    /\ written = {"a.cpp", "b.h"}
    /\ disk["a.cpp"] # orig["a.cpp"]
    /\ disk["b.h"] = orig["b.h"]
    /\ disk["r.txt"] = orig["r.txt"]

\* ------------------------------------------------------------------ C18
\* C18: at every trial boundary of a file its content on disk is the
\* snapshot original_content without exactly the include lines that name a
\* header accepted since the last failed trial of the file (since the
\* start of the file when none failed).
LastKeep(p) ==
    LET ks == {k \in 1..Len(log) : log[k][1] = "Keep" /\ log[k][3] = p}
    IN IF ks = {} THEN 0 ELSE CHOOSE k \in ks : \A m \in ks : m <= k

AcceptedSinceLastKeep(p) ==
    {log[k][2] : k \in {j \in (LastKeep(p) + 1)..Len(log) :
                          log[j][1] = "Removed" /\ log[j][3] = p}}

C18_TrailingAcceptedOnly ==
    pc = "for_include" =>
      disk[file_path] =
        SelectSeq(original_content,
                  LAMBDA l : ~(/\ l.kind = "include"
                               /\ l.name \in AcceptedSinceLastKeep(file_path)))

\* ------------------------------------------------------------------ C19
\* the include lines of a content that name the header
LinesNaming(h, content) ==
    SelectSeq(content, LAMBDA l : l.kind = "include" /\ l.name = h)

\* C19, as claimed: with a deterministic build command, every header
\* reported "Keep" for a file has all its original include lines in the
\* file when the run ends.
C19_KeptStaysPresent ==
    (det /\ pc = "done") =>
      \A p \in SourcePaths : \A h \in Reported("Keep", p) :
        LinesNaming(h, disk[p]) = LinesNaming(h, run_start[p])

\* the last decision printed for the header and the path
LastDecision(h, p) ==
    LET ks == {k \in 1..Len(log) : /\ log[k][1] \in {"Removed", "Keep"}
                                   /\ log[k][2] = h
                                   /\ log[k][3] = p}
    IN IF ks = {} THEN "none"
       ELSE log[CHOOSE k \in ks : \A m \in ks : m <= k][1]

\* C19, amended: with a deterministic build command, every header whose
\* last report for a file is "Keep" has all its original include lines in
\* the file at every later trial boundary and when the run ends.
C19_LastKeptStaysPresent ==
    (det /\ pc \in {"for_file", "for_include", "done"}) =>
      \A p \in SourcePaths : \A h \in Headers :
        LastDecision(h, p) = "Keep" =>
          LinesNaming(h, disk[p]) = LinesNaming(h, run_start[p])

\* the run ended; y.h was kept in a.cpp, then a trial of another header was
\* accepted, and both y.h lines are in the file
C19_Witness ==
    /\ det
    /\ pc = "done"
    /\ LastDecision("y.h", "a.cpp") = "Keep"
    /\ LastDecision("x.h", "a.cpp") = "Removed"
    /\ LastKeep("a.cpp") < Len(log) - 1
    /\ Len(LinesNaming("y.h", disk["a.cpp"])) = 2
====
